---- MODULE Spec2Model ----
(***************************************************************************)
(* Model of the feed-forward network trainer of finge-rs (src/src/nn.rs)   *)
(* and of the driver that installs the interrupt handler                   *)
(* (src/src/bin/finge-rs.rs).                                              *)
(*                                                                         *)
(* Conventions.                                                            *)
(*  - Vectors (Vec, DVector) are functions over 0..n-1, so every index of  *)
(*    the model is the index of the source.                                *)
(*  - A DMatrix is [nrows, ncols, mij] with mij the column-major element   *)
(*    vector (element (i,j) is mij[i + j*nrows]), as in nalgebra.          *)
(*  - An f32 is a pair <<n, d>>: the number n/d in lowest terms when d > 0,*)
(*    NaN = <<0,0>>, +inf = <<1,0>>, -inf = <<-1,0>>.  Results that are    *)
(*    integers of magnitude at least 2^24 are rounded to the 24-bit        *)
(*    mantissa of f32 (ties to even); the rounding of fractions and the    *)
(*    sign of zero are not modelled.                                       *)
(*  - Sigmoid and Tanh need exp; only the Identity activation is evaluated.*)
(***************************************************************************)
EXTENDS Integers, Sequences, FiniteSets, TLC

\* ------------------------------------------------------------------------
\* Bounds of the model
\* ------------------------------------------------------------------------
MaxLayers == 3
MaxLayerSize == 2
MaxSupply == 3
MaxPatience == 2
MaxCap == 2

\* ------------------------------------------------------------------------
\* f32 arithmetic
\* ------------------------------------------------------------------------
Abs(n) == IF n < 0 THEN -n ELSE n

Sgn(n) == IF n < 0 THEN -1 ELSE IF n > 0 THEN 1 ELSE 0

RECURSIVE GCD(_, _)
GCD(a, b) == IF b = 0 THEN a ELSE GCD(b, a % b)

NaN == <<0, 0>>

INFINITY == <<1, 0>>

NEG_INFINITY == <<-1, 0>>

Zero == <<0, 1>>

One == <<1, 1>>

F(n) == <<n, 1>>

IsNaN(x) == x = NaN

IsInf(x) == x[2] = 0 /\ x[1] # 0

IsFinite(x) == x[2] > 0

F32Mantissa == 16777216

RECURSIVE Ulp(_)
Ulp(m) == IF m < F32Mantissa THEN 1 ELSE 2 * Ulp(m \div 2)

RoundInt(n) ==
  LET m == Abs(n)
      u == Ulp(m)
      q == m \div u
      r == m % u
      up == (2 * r > u) \/ (2 * r = u /\ q % 2 = 1)
  IN Sgn(n) * (IF up THEN (q + 1) * u ELSE q * u)

F32Round(x) == IF x[2] = 1 THEN <<RoundInt(x[1]), 1>> ELSE x

Norm(n, d) ==
  LET g == GCD(Abs(n), d)
  IN F32Round(<<n \div g, d \div g>>)

FNeg(x) == <<-x[1], x[2]>>

FAdd(x, y) ==
  IF IsNaN(x) \/ IsNaN(y) THEN NaN
  ELSE IF IsInf(x) THEN (IF IsInf(y) /\ x # y THEN NaN ELSE x)
  ELSE IF IsInf(y) THEN y
  ELSE LET g == GCD(x[2], y[2])
       IN Norm(x[1] * (y[2] \div g) + y[1] * (x[2] \div g), (x[2] \div g) * y[2])

FSub(x, y) == FAdd(x, FNeg(y))

FMul(x, y) ==
  IF IsNaN(x) \/ IsNaN(y) THEN NaN
  ELSE IF IsInf(x) \/ IsInf(y)
       THEN (IF x[1] = 0 \/ y[1] = 0 THEN NaN ELSE <<Sgn(x[1]) * Sgn(y[1]), 0>>)
  ELSE Norm(x[1] * y[1], x[2] * y[2])

FDiv(x, y) ==
  IF IsNaN(x) \/ IsNaN(y) THEN NaN
  ELSE IF IsInf(x) THEN (IF IsInf(y) THEN NaN
                         ELSE <<x[1] * (IF y[1] < 0 THEN -1 ELSE 1), 0>>)
  ELSE IF IsInf(y) THEN Zero
  ELSE IF y[1] = 0 THEN (IF x[1] = 0 THEN NaN ELSE <<Sgn(x[1]), 0>>)
  ELSE Norm(Sgn(y[1]) * x[1] * y[2], x[2] * Abs(y[1]))

FLt(x, y) ==
  IF IsNaN(x) \/ IsNaN(y) THEN FALSE
  ELSE IF IsInf(x) \/ IsInf(y)
       THEN (IF x = y THEN FALSE
             ELSE IF x = NEG_INFINITY \/ y = INFINITY THEN TRUE
             ELSE FALSE)
  ELSE LET g == GCD(x[2], y[2])
       IN x[1] * (y[2] \div g) < y[1] * (x[2] \div g)

\* ------------------------------------------------------------------------
\* Vectors and matrices
\* ------------------------------------------------------------------------
VLen(v) == Cardinality(DOMAIN v)

Last(v) == v[VLen(v) - 1]

Insert0(v, x) == [i \in 0..VLen(v) |-> IF i = 0 THEN x ELSE v[i - 1]]

new_zeros_vec(n) == [i \in 0..(n - 1) |-> Zero]

new_zeros_mat(r, c) == [nrows |-> r, ncols |-> c, mij |-> [i \in 0..(r * c - 1) |-> Zero]]

Min(a, b) == IF a < b THEN a ELSE b

RECURSIVE SumTo(_, _)
SumTo(v, n) == IF n = 0 THEN Zero ELSE FAdd(SumTo(v, n - 1), v[n - 1])

Sum(v) == SumTo(v, VLen(v))

VecAdd(a, b) == [i \in DOMAIN a |-> FAdd(a[i], b[i])]

VecSub(a, b) == [i \in DOMAIN a |-> FSub(a[i], b[i])]

MatAdd(a, b) == [a EXCEPT !.mij = [i \in DOMAIN a.mij |-> FAdd(a.mij[i], b.mij[i])]]

norm_squared(v) == Sum([i \in DOMAIN v |-> FMul(v[i], v[i])])

VecMulMat(v, m) ==
  [j \in 0..(m.ncols - 1) |->
     Sum([i \in 0..(m.nrows - 1) |-> FMul(v[i], m.mij[i + j * m.nrows])])]

MatMulVec(m, d) ==
  [i \in 0..(m.nrows - 1) |->
     Sum([j \in 0..(m.ncols - 1) |-> FMul(m.mij[i + j * m.nrows], d[j])])]

outer(a, b) ==
  [nrows |-> VLen(a), ncols |-> VLen(b),
   mij |-> [k \in 0..(VLen(a) * VLen(b) - 1) |->
              FMul(a[k % VLen(a)], b[k \div VLen(a)])]]

None == [some |-> FALSE]

Some(x) == [some |-> TRUE, v |-> x]

Panic == [panic |-> TRUE]

Ok(x) == [panic |-> FALSE, value |-> x]

Zip2(a, b) == 0..(Min(VLen(a), VLen(b)) - 1)

\* ------------------------------------------------------------------------
\* ActivationFunction
\* ------------------------------------------------------------------------
function(fn, x, coeff) ==
  CASE fn = "Identity" -> FMul(x, coeff)

derivative(fn, x, coeff) ==
  CASE fn = "Identity" -> coeff

\* ------------------------------------------------------------------------
\* Network construction
\* ------------------------------------------------------------------------
windows2(layers) == [i \in 0..(VLen(layers) - 2) |-> <<layers[i], layers[i + 1]>>]

activation_fn_of(name) ==
  CASE name = "sigmoid" -> "Sigmoid"
    [] name = "tanh" -> "Tanh"
    [] name = "id" -> "Identity"
    [] OTHER -> "panic"

\* A variant of from_definition that builds each weight matrix transposed.
from_definition_transposed(defn) ==
  IF activation_fn_of(defn.activation_fn) = "panic" THEN Panic
  ELSE [layer_sizes |-> defn.layers,
        activation_coeffs |-> Insert0(defn.activation_coeffs, Zero),
        weights |-> Insert0([i \in DOMAIN windows2(defn.layers) |->
                               new_zeros_mat(windows2(defn.layers)[i][2],
                                             windows2(defn.layers)[i][1])],
                            new_zeros_mat(0, 0)),
        biases |-> [i \in DOMAIN defn.layers |-> new_zeros_vec(defn.layers[i])],
        activation_fn |-> activation_fn_of(defn.activation_fn)]

from_definition(defn) ==
  IF activation_fn_of(defn.activation_fn) = "panic" THEN Panic
  ELSE [layer_sizes |-> defn.layers,
        activation_coeffs |-> Insert0(defn.activation_coeffs, Zero),
        weights |-> Insert0([i \in DOMAIN windows2(defn.layers) |->
                               new_zeros_mat(windows2(defn.layers)[i][1],
                                             windows2(defn.layers)[i][2])],
                            new_zeros_mat(0, 0)),
        biases |-> [i \in DOMAIN defn.layers |-> new_zeros_vec(defn.layers[i])],
        activation_fn |-> activation_fn_of(defn.activation_fn)]

\* The random source: the draws from Normal(0.0, 0.1) are a fixed stream of
\* samples, rng the position of the next draw.
Samples == <<F(1), F(-1)>>

ind_sample(rng, n) == Samples[((rng + n) % Len(Samples)) + 1]

RECURSIVE SizeBefore(_, _)
SizeBefore(sizes, it) == IF it = 0 THEN 0 ELSE SizeBefore(sizes, it - 1) + sizes[it - 1]

WeightSizes(self) == [it \in DOMAIN self.weights |-> VLen(self.weights[it].mij)]

BiasSizes(self) == [it \in DOMAIN self.biases |-> VLen(self.biases[it])]

ParamCount(self) ==
  SizeBefore(WeightSizes(self), VLen(self.weights)) + SizeBefore(BiasSizes(self), VLen(self.biases))

assign_random_weights(self, rng) ==
  LET nw == SizeBefore(WeightSizes(self), VLen(self.weights))
  IN [self EXCEPT
        !.weights = [it \in DOMAIN self.weights |->
           [self.weights[it] EXCEPT !.mij = [k \in DOMAIN self.weights[it].mij |->
              ind_sample(rng, SizeBefore(WeightSizes(self), it) + k)]]],
        !.biases = [it \in DOMAIN self.biases |->
           [k \in DOMAIN self.biases[it] |->
              ind_sample(rng, nw + SizeBefore(BiasSizes(self), it) + k)]]]

zero_layers(self) == [i \in DOMAIN self.layer_sizes |-> new_zeros_vec(self.layer_sizes[i])]

zero_weights(self) ==
  Insert0([i \in DOMAIN windows2(self.layer_sizes) |->
             new_zeros_mat(windows2(self.layer_sizes)[i][1], windows2(self.layer_sizes)[i][2])],
          new_zeros_mat(0, 0))

\* A variant of weight_sum that overwrites the accumulated matrices instead of
\* adding to them.
weight_sum_overwrite(delta1, delta2) ==
  [i \in DOMAIN delta1 |-> IF i \in Zip2(delta1, delta2) THEN delta2[i] ELSE delta1[i]]

weight_sum(delta1, delta2) ==
  [i \in DOMAIN delta1 |-> IF i \in Zip2(delta1, delta2) THEN MatAdd(delta1[i], delta2[i])
                           ELSE delta1[i]]

bias_sum(bias1, bias2) ==
  [i \in DOMAIN bias1 |-> IF i \in Zip2(bias1, bias2) THEN VecAdd(bias1[i], bias2[i])
                          ELSE bias1[i]]

\* ------------------------------------------------------------------------
\* Forward propagation and evaluation
\* ------------------------------------------------------------------------
RECURSIVE feed_forward_from(_, _, _, _, _)
feed_forward_from(self, layers, layer_inputs, it, stop_at) ==
  IF it >= stop_at - 1 THEN [layers |-> layers, layer_inputs |-> layer_inputs]
  ELSE LET input == VecMulMat(layers[it], self.weights[it + 1])
           li == [k \in Zip2(input, self.biases[it + 1]) |->
                    FAdd(input[k], self.biases[it + 1][k])]
           ly == [k \in DOMAIN li |->
                    function(self.activation_fn, li[k], self.activation_coeffs[it + 1])]
       IN feed_forward_from(self, [layers EXCEPT ![it + 1] = ly],
                            [layer_inputs EXCEPT ![it + 1] = li], it + 1, stop_at)

feed_forward(self, layers, layer_inputs, stop_at) ==
  feed_forward_from(self, layers, layer_inputs, 0, stop_at)

eval_impl(self, layers, example, stop_at) ==
  feed_forward(self, [layers EXCEPT ![0] = example], zero_layers(self), VLen(layers)).layers

eval(self, example) ==
  IF VLen(zero_layers(self)[0]) # VLen(example) THEN Panic
  ELSE Ok(Last(eval_impl(self, zero_layers(self), example, VLen(zero_layers(self)))))

eval_to_layer(self, example, layer) ==
  IF VLen(zero_layers(self)[0]) # VLen(example) THEN Panic
  ELSE IF layer - 1 \notin DOMAIN zero_layers(self) THEN Panic
  ELSE Ok(eval_impl(self, zero_layers(self), example, layer)[layer - 1])

validation_error_of(self, layers, input, output) ==
  LET out == eval_impl(self, layers, input, VLen(layers))
  IN FDiv(norm_squared(VecSub(output, Last(out))), F(VLen(Last(out))))

\* ------------------------------------------------------------------------
\* Backpropagation and gradients
\* ------------------------------------------------------------------------
RECURSIVE backpropagate_from(_, _, _, _)
backpropagate_from(self, layers, delta, it) ==
  IF it < 0 THEN delta
  ELSE LET next_delta == MatMulVec(self.weights[it + 1], delta[it + 1])
           d == [k \in Zip2(next_delta, layers[it]) |-> FMul(next_delta[k], layers[it][k])]
       IN backpropagate_from(self, layers, [delta EXCEPT ![it] = d], it - 1)

backpropagate(self, layer_inputs, out_layer_diff) ==
  LET layers == [i \in DOMAIN layer_inputs |->
                   IF i \in Zip2(layer_inputs, self.activation_coeffs)
                   THEN [k \in DOMAIN layer_inputs[i] |->
                           derivative(self.activation_fn, layer_inputs[i][k],
                                      self.activation_coeffs[i])]
                   ELSE layer_inputs[i]]
      last == VLen(layers) - 1
      delta == [zero_layers(self) EXCEPT ![last] =
                  [k \in Zip2(out_layer_diff, layers[last]) |->
                     FMul(out_layer_diff[k], layers[last][k])]]
  IN backpropagate_from(self, layers, delta, VLen(layers) - 2)

compute_weight_update(self, layers, delta) ==
  [w |-> [it \in DOMAIN zero_weights(self) |->
            IF 1 <= it /\ it < VLen(layers) THEN outer(layers[it - 1], delta[it])
            ELSE zero_weights(self)[it]],
   b |-> [it \in DOMAIN zero_layers(self) |->
            IF 1 <= it /\ it < VLen(layers) THEN delta[it]
            ELSE zero_layers(self)[it]]]

\* The closure of the parallel map of train, for one example <<i, o>>.
example_update(self, ex) ==
  LET layers0 == [zero_layers(self) EXCEPT ![0] = ex[1]]
      ff == feed_forward(self, layers0, zero_layers(self), VLen(layers0))
      out_layer_diff == VecSub(Last(ff.layers), ex[2])
      train_error == FDiv(norm_squared(out_layer_diff), F(VLen(out_layer_diff)))
      residual_errors == backpropagate(self, ff.layer_inputs, out_layer_diff)
      updates == compute_weight_update(self, ff.layers, residual_errors)
  IN [w |-> updates.w, b |-> updates.b, err |-> train_error]

\* ------------------------------------------------------------------------
\* Cost and weight update
\* ------------------------------------------------------------------------
\* A variant of cost that takes the mean of the squared weights of each matrix
\* where cost divides their sum by the number of examples.
cost_mean_squared(self, output_error, examples, conf) ==
  IF examples = 0 THEN Zero
  ELSE FAdd(output_error,
            IF conf.regularization_param # Zero
            THEN FDiv(FMul(conf.regularization_param,
                           Sum([it \in DOMAIN self.weights |->
                                  IF VLen(self.weights[it].mij) = 0 THEN Zero
                                  ELSE FDiv(Sum([k \in DOMAIN self.weights[it].mij |->
                                                   FMul(self.weights[it].mij[k],
                                                        self.weights[it].mij[k])]),
                                            F(VLen(self.weights[it].mij)))])),
                      F(VLen(self.weights)))
            ELSE Zero)

cost(self, output_error, examples, conf) ==
  IF examples = 0 THEN Zero
  ELSE FAdd(output_error,
            IF conf.regularization_param # Zero
            THEN FDiv(FMul(conf.regularization_param,
                           Sum([it \in DOMAIN self.weights |->
                                  FDiv(Sum([k \in DOMAIN self.weights[it].mij |->
                                              FMul(self.weights[it].mij[k],
                                                   self.weights[it].mij[k])]),
                                       F(examples))])),
                      F(VLen(self.weights)))
            ELSE Zero)

\* A variant of update_weights that scales the weights of every layer, not only
\* those of layer 1.
update_weights_scaling_every_layer(self, weight_update_sum, bias_update_sum, last_weight_update_sum, last_bias_update_sum, examples, conf) ==
  LET n == F(examples)
      w1 == [it \in DOMAIN self.weights |->
               [self.weights[it] EXCEPT !.mij =
                  [k \in DOMAIN self.weights[it].mij |->
                     IF k \in DOMAIN weight_update_sum[it].mij
                     THEN LET w == IF it >= 1
                                   THEN FMul(self.weights[it].mij[k],
                                             FSub(One, FDiv(FMul(conf.regularization_param,
                                                                 conf.learning_rate), n)))
                                   ELSE self.weights[it].mij[k]
                          IN FSub(w, FMul(FDiv(weight_update_sum[it].mij[k], n),
                                          conf.learning_rate))
                     ELSE self.weights[it].mij[k]]]]
      b1 == [it \in DOMAIN self.biases |->
               [k \in DOMAIN self.biases[it] |->
                  IF k \in DOMAIN bias_update_sum[it]
                  THEN FSub(self.biases[it][k],
                            FMul(FDiv(bias_update_sum[it][k], n), conf.learning_rate))
                  ELSE self.biases[it][k]]]
      w2 == IF ~conf.momentum_rate.some THEN w1
            ELSE [it \in DOMAIN w1 |->
                    [w1[it] EXCEPT !.mij =
                       [k \in DOMAIN w1[it].mij |->
                          IF k \in DOMAIN last_weight_update_sum[it].mij
                          THEN FSub(w1[it].mij[k],
                                    FMul(FDiv(last_weight_update_sum[it].mij[k], n),
                                         conf.momentum_rate.v))
                          ELSE w1[it].mij[k]]]]
      b2 == IF ~conf.momentum_rate.some THEN b1
            ELSE [it \in DOMAIN b1 |->
                    [k \in DOMAIN b1[it] |->
                       IF k \in DOMAIN last_bias_update_sum[it]
                       THEN FSub(b1[it][k],
                                 FMul(FDiv(last_bias_update_sum[it][k], n),
                                      conf.momentum_rate.v))
                       ELSE b1[it][k]]]
  IN [self EXCEPT !.weights = w2, !.biases = b2]

update_weights(self, weight_update_sum, bias_update_sum, last_weight_update_sum, last_bias_update_sum, examples, conf) ==
  LET n == F(examples)
      w1 == [it \in DOMAIN self.weights |->
               [self.weights[it] EXCEPT !.mij =
                  [k \in DOMAIN self.weights[it].mij |->
                     IF k \in DOMAIN weight_update_sum[it].mij
                     THEN LET w == IF it = 1
                                   THEN FMul(self.weights[it].mij[k],
                                             FSub(One, FDiv(FMul(conf.regularization_param,
                                                                 conf.learning_rate), n)))
                                   ELSE self.weights[it].mij[k]
                          IN FSub(w, FMul(FDiv(weight_update_sum[it].mij[k], n),
                                          conf.learning_rate))
                     ELSE self.weights[it].mij[k]]]]
      b1 == [it \in DOMAIN self.biases |->
               [k \in DOMAIN self.biases[it] |->
                  IF k \in DOMAIN bias_update_sum[it]
                  THEN FSub(self.biases[it][k],
                            FMul(FDiv(bias_update_sum[it][k], n), conf.learning_rate))
                  ELSE self.biases[it][k]]]
      w2 == IF ~conf.momentum_rate.some THEN w1
            ELSE [it \in DOMAIN w1 |->
                    [w1[it] EXCEPT !.mij =
                       [k \in DOMAIN w1[it].mij |->
                          IF k \in DOMAIN last_weight_update_sum[it].mij
                          THEN FSub(w1[it].mij[k],
                                    FMul(FDiv(last_weight_update_sum[it].mij[k], n),
                                         conf.momentum_rate.v))
                          ELSE w1[it].mij[k]]]]
      b2 == IF ~conf.momentum_rate.some THEN b1
            ELSE [it \in DOMAIN b1 |->
                    [k \in DOMAIN b1[it] |->
                       IF k \in DOMAIN last_bias_update_sum[it]
                       THEN FSub(b1[it][k],
                                 FMul(FDiv(last_bias_update_sum[it][k], n),
                                      conf.momentum_rate.v))
                       ELSE b1[it][k]]]
  IN [self EXCEPT !.weights = w2, !.biases = b2]

\* ------------------------------------------------------------------------
\* State
\* ------------------------------------------------------------------------
VARIABLES
  pc,                 \* position of the main thread
  defn,               \* the NetworkDefn the network is built from
  net,                \* the Network (self)
  rng,                \* position of the random source
  randomized,         \* whether assign_random_weights has been called
  result,             \* the last evaluation: operation, arguments, value
  conf,               \* the TrainConfig handed to train
  learning,           \* the shared cancellation flag: None or Some(BOOLEAN)
  validation_data,    \* None or Some(the validation examples)
  epochs_since_validation_improvement,
  epoch,
  last_weight_update_sum,
  last_bias_update_sum,
  best_known_net,
  validation_cost,
  batch,              \* the batch of the epoch in progress
  worker,             \* per example of the batch: the state of its worker
  acc,                \* the accumulator of the reduction
  train_cost,         \* the reported costs of the last epoch
  new_validation_cost,
  supplied,           \* batches handed out by the supplier
  hist,               \* per epoch that got a batch: network and cost after it
  obs                 \* observations: counters of reads, updates, ...

vars == <<pc, defn, net, rng, randomized, result, conf, learning, validation_data,
          epochs_since_validation_improvement, epoch, last_weight_update_sum,
          last_bias_update_sum, best_known_net, validation_cost, batch, worker, acc,
          train_cost, new_validation_cost, supplied, hist, obs>>

netVars == <<defn, net, rng, randomized, result>>

trainVars == <<conf, learning, validation_data, epochs_since_validation_improvement,
               epoch, last_weight_update_sum, last_bias_update_sum, best_known_net,
               validation_cost, batch, worker, acc, train_cost, new_validation_cost,
               supplied, hist, obs>>

Vec0(s) == [i \in 0..(Len(s) - 1) |-> s[i + 1]]

NoNet == [panic |-> FALSE]

NoObs == [flag_reads |-> 0, batch_requests |-> 0, updates |-> 0, validations |-> 0,
          completed |-> 0, flipped |-> [at |-> "no", epoch |-> 0], exhausted |-> FALSE,
          zero_update |-> FALSE, rounded |-> FALSE, train_error |-> Zero,
          validation_error |-> Zero, net0 |-> NoNet, epoch_net |-> NoNet, last_updated |-> NoNet]

TrainIdle ==
  /\ epochs_since_validation_improvement = 0 /\ epoch = 0
  /\ last_weight_update_sum = <<>> /\ last_bias_update_sum = <<>>
  /\ best_known_net = NoNet /\ validation_cost = INFINITY
  /\ batch = <<>> /\ worker = <<>> /\ acc = None
  /\ train_cost = None /\ new_validation_cost = None
  /\ supplied = 0 /\ hist = <<>> /\ obs = NoObs

\* ------------------------------------------------------------------------
\* Construction and evaluation of a network
\* ------------------------------------------------------------------------
LayerSeqs ==
  UNION {[0..(n - 1) -> 1..MaxLayerSize] : n \in 2..MaxLayers}

CoeffChoices(n) == {[i \in 0..(n - 1) |-> F(i + 1)]}

FnNames == {"id", "sigmoid", "relu"}

CoeffSeqs(l) == CoeffChoices(VLen(l) - 1) \cup CoeffChoices(VLen(l))

Defns ==
  UNION {{[layers |-> l, activation_coeffs |-> c, activation_fn |-> f] :
            c \in CoeffSeqs(l), f \in FnNames} : l \in LayerSeqs}

Inputs(n) == {[i \in 0..(n - 1) |-> F(1)], [i \in 0..(n - 1) |-> F(i - 2)]}

FromDefinition ==
  /\ pc = "new"
  /\ net' = from_definition(defn)
  /\ pc' = IF from_definition(defn) = Panic THEN "panicked" ELSE "built"
  /\ UNCHANGED <<defn, rng, randomized, result>>
  /\ UNCHANGED trainVars

AssignRandomWeights ==
  /\ pc = "built"
  /\ net' = assign_random_weights(net, rng)
  /\ rng' = (rng + ParamCount(net)) % Len(Samples)
  /\ randomized' = TRUE
  /\ result' = None
  /\ UNCHANGED <<pc, defn>>
  /\ UNCHANGED trainVars

Eval ==
  /\ pc = "built"
  /\ net.activation_fn = "Identity"
  /\ \E n \in {net.layer_sizes[0], net.layer_sizes[0] + 1} : \E example \in Inputs(n) :
       result' = Some([op |-> "eval", example |-> example, layer |-> 0,
                       ret |-> eval(net, example)])
  /\ UNCHANGED <<pc, defn, net, rng, randomized>>
  /\ UNCHANGED trainVars

EvalToLayer ==
  /\ pc = "built"
  /\ net.activation_fn = "Identity"
  /\ \E example \in Inputs(net.layer_sizes[0]) : \E layer \in 0..VLen(net.layer_sizes) :
       result' = Some([op |-> "eval_to_layer", example |-> example, layer |-> layer,
                       ret |-> eval_to_layer(net, example, layer)])
  /\ UNCHANGED <<pc, defn, net, rng, randomized>>
  /\ UNCHANGED trainVars

\* ------------------------------------------------------------------------
\* Training
\* ------------------------------------------------------------------------
\* The networks that are trained: a two-layer network, and a three-layer network
\* whose output coefficient 0.0 makes every gradient vanish (deeper networks with
\* live gradients overflow the integers of the model within three epochs).
TrainDefns ==
  {[layers |-> Vec0(<<2, 1>>), activation_coeffs |-> Vec0(<<One>>), activation_fn |-> "id"],
   [layers |-> Vec0(<<1, 2, 1>>), activation_coeffs |-> Vec0(<<One, Zero>>),
    activation_fn |-> "id"]}

Confs ==
  {[learning_rate |-> One, momentum_rate |-> m,
    sequential_validation_failures_required |-> p, max_epochs |-> c,
    regularization_param |-> r] :
     m \in {None, Some(One)}, p \in {0, 1, MaxPatience},
     c \in {None, Some(0), Some(MaxCap)}, r \in {Zero, One}}

Example(self, x, t) ==
  <<[i \in 0..(self.layer_sizes[0] - 1) |-> x],
    [i \in 0..(Last(self.layer_sizes) - 1) |-> t]>>

Batches(self) ==
  {<<>>, Vec0(<<Example(self, One, One)>>),
   Vec0(<<Example(self, One, One), Example(self, F(-1), Zero)>>)}

ValidationSets(self) ==
  {None, Some(<<>>), Some(Vec0(<<Example(self, One, One)>>))}

Init ==
  /\ pc = "new"
  /\ defn \in Defns \cup TrainDefns
  /\ net = NoNet /\ rng = 0 /\ randomized = FALSE /\ result = None
  /\ conf = None /\ learning = None /\ validation_data = None
  /\ TrainIdle

is_validating == validation_data.some


\* Lines 177-191: train is called; its arguments and locals. The supplier is the
\* closure of finge-rs.rs lines 86-89, which hands out a sample of the same
\* number of examples on every call: batch holds that sample.
TrainCall ==
  /\ pc = "built"
  /\ defn \in TrainDefns
  /\ conf' \in Confs
  /\ learning' \in {None, Some(TRUE)}
  /\ validation_data' \in ValidationSets(net)
  /\ pc' = "loop"
  /\ epochs_since_validation_improvement' = 0
  /\ epoch' = 0
  /\ last_weight_update_sum' = zero_weights(net)
  /\ last_bias_update_sum' = zero_layers(net)
  /\ best_known_net' = net
  /\ validation_cost' = INFINITY
  /\ obs' = [obs EXCEPT !.net0 = net, !.last_updated = net]
  /\ result' = None
  /\ batch' \in Batches(net)
  /\ UNCHANGED <<worker, acc, train_cost, new_validation_cost, supplied, hist>>
  /\ UNCHANGED <<defn, net, rng, randomized>>

\* A variant of the loop condition that never reads the flag.
LoopCondIgnoringFlag ==
  /\ epochs_since_validation_improvement < conf.sequential_validation_failures_required
  /\ (conf.max_epochs.some => epoch < conf.max_epochs.v)

\* A variant of the loop condition that admits one epoch beyond the cap.
LoopCondInclusiveCap ==
  /\ (learning.some => learning.v)
  /\ epochs_since_validation_improvement < conf.sequential_validation_failures_required
  /\ (conf.max_epochs.some => epoch <= conf.max_epochs.v)

\* Lines 193-195: the condition of the while loop.
LoopCond ==
  /\ (learning.some => learning.v)
  /\ epochs_since_validation_improvement < conf.sequential_validation_failures_required
  /\ (conf.max_epochs.some => epoch < conf.max_epochs.v)

FlagRead == IF learning.some THEN 1 ELSE 0

LoopExit ==
  /\ pc = "loop"
  /\ ~LoopCond
  /\ pc' = "exit"
  /\ obs' = [obs EXCEPT !.flag_reads = @ + FlagRead]
  /\ UNCHANGED <<conf, learning, validation_data, epochs_since_validation_improvement,
                 epoch, last_weight_update_sum, last_bias_update_sum, best_known_net,
                 validation_cost, batch, worker, acc, train_cost, new_validation_cost,
                 supplied, hist>>
  /\ UNCHANGED netVars

ReduceIdentity(self) == [w |-> zero_weights(self), b |-> zero_layers(self), err |-> Zero]

QueuedWorker == [st |-> "queued", layers |-> <<>>, layer_inputs |-> <<>>,
                 out_layer_diff |-> <<>>, train_error |-> Zero,
                 residual_errors |-> <<>>, seen |-> {}]

\* Lines 196-197: the loop is entered and the supplier hands out its batch.
EpochStart ==
  /\ pc = "loop"
  /\ LoopCond
  /\ supplied < MaxSupply
  /\ worker' = [i \in DOMAIN batch |-> QueuedWorker]
  /\ epoch' = epoch + 1
  /\ acc' = Some(ReduceIdentity(net))
  /\ supplied' = supplied + 1
  /\ pc' = "map"
  /\ obs' = [obs EXCEPT !.flag_reads = @ + FlagRead, !.batch_requests = @ + 1,
                        !.epoch_net = net]
  /\ UNCHANGED <<conf, learning, validation_data, epochs_since_validation_improvement,
                 last_weight_update_sum, last_bias_update_sum, best_known_net,
                 validation_cost, train_cost, new_validation_cost, hist, batch>>
  /\ UNCHANGED netVars

\* Lines 196-197, 253-255: the supplier signals exhaustion.
Exhausted ==
  /\ pc = "loop"
  /\ LoopCond
  /\ epoch' = epoch + 1
  /\ pc' = "exit"
  /\ obs' = [obs EXCEPT !.flag_reads = @ + FlagRead, !.batch_requests = @ + 1,
                        !.exhausted = TRUE]
  /\ UNCHANGED <<conf, learning, validation_data, epochs_since_validation_improvement,
                 last_weight_update_sum, last_bias_update_sum, best_known_net,
                 validation_cost, batch, worker, acc, train_cost, new_validation_cost,
                 supplied, hist>>
  /\ UNCHANGED netVars

workerRest == <<pc, conf, learning, validation_data, epochs_since_validation_improvement,
                epoch, last_weight_update_sum, last_bias_update_sum, best_known_net,
                validation_cost, batch, train_cost, new_validation_cost, supplied,
                hist, obs>>

\* Lines 202-208: a worker runs the forward pass of its example.
WorkerForward(i) ==
  /\ pc = "map"
  /\ worker[i].st = "queued"
  /\ LET layers0 == [zero_layers(net) EXCEPT ![0] = batch[i][1]]
         ff == feed_forward(net, layers0, zero_layers(net), VLen(layers0))
         diff == VecSub(Last(ff.layers), batch[i][2])
     IN worker' = [worker EXCEPT ![i] =
          [@ EXCEPT !.st = "forward", !.layers = ff.layers,
                    !.layer_inputs = ff.layer_inputs, !.out_layer_diff = diff,
                    !.train_error = FDiv(norm_squared(diff), F(VLen(diff))),
                    !.seen = @ \cup {net}]]
  /\ UNCHANGED <<acc>>
  /\ UNCHANGED workerRest
  /\ UNCHANGED netVars

\* Line 209: the worker backpropagates the output error.
WorkerBackprop(i) ==
  /\ pc = "map"
  /\ worker[i].st = "forward"
  /\ worker' = [worker EXCEPT ![i] =
       [@ EXCEPT !.st = "backprop",
                 !.residual_errors = backpropagate(net, worker[i].layer_inputs,
                                                   worker[i].out_layer_diff),
                 !.seen = @ \cup {net}]]
  /\ UNCHANGED <<acc>>
  /\ UNCHANGED workerRest
  /\ UNCHANGED netVars

\* Lines 210-214: the worker computes the gradient of its example, which is
\* reduced into the accumulator.
WorkerGradient(i) ==
  /\ pc = "map"
  /\ worker[i].st = "backprop"
  /\ LET updates == compute_weight_update(net, worker[i].layers, worker[i].residual_errors)
     IN acc' = Some([w |-> weight_sum(acc.v.w, updates.w),
                     b |-> bias_sum(acc.v.b, updates.b),
                     err |-> FAdd(acc.v.err, worker[i].train_error)])
  /\ worker' = [worker EXCEPT ![i] = [@ EXCEPT !.st = "done", !.seen = @ \cup {net}]]
  /\ UNCHANGED workerRest
  /\ UNCHANGED netVars

\* A variant without the barrier: the update does not wait for the workers.
NoBarrier == TRUE

\* The parallel map and reduce of lines 199-214 return when every worker is done.
AllWorkersDone == \A i \in DOMAIN worker : worker[i].st = "done"

\* Lines 216-220: the weight update of the epoch and the training cost.
UpdateWeights ==
  /\ pc = "map"
  /\ AllWorkersDone
  /\ LET batch_len == VLen(batch)
         train_error == FDiv(acc.v.err, F(batch_len))
         updated == update_weights(net, acc.v.w, acc.v.b, last_weight_update_sum,
                                   last_bias_update_sum, batch_len, conf)
     IN /\ net' = updated
        /\ train_cost' = Some(cost(updated, train_error, batch_len, conf))
        /\ obs' = [obs EXCEPT !.updates = @ + 1, !.last_updated = updated,
                              !.zero_update = @ \/ batch_len = 0,
                              !.train_error = train_error]
  /\ pc' = "validate"
  /\ UNCHANGED <<defn, rng, randomized, result>>
  /\ UNCHANGED <<conf, learning, validation_data, epochs_since_validation_improvement,
                 epoch, last_weight_update_sum, last_bias_update_sum, best_known_net,
                 validation_cost, batch, worker, acc, new_validation_cost, supplied, hist>>

validation_error(self, v) ==
  FDiv(Sum([k \in DOMAIN v |-> validation_error_of(self, zero_layers(self), v[k][1], v[k][2])]),
       F(VLen(v)))

\* A variant of the validation pass that also takes a cost equal to the best
\* one for an improvement.
ValidateNotHigher ==
  /\ pc = "validate"
  /\ IF is_validating
     THEN LET verr == validation_error(net, validation_data.v)
              nvc == cost(net, verr, VLen(validation_data.v), conf)
          IN /\ new_validation_cost' = Some(nvc)
             /\ IF FLt(nvc, validation_cost) \/ nvc = validation_cost
                THEN /\ epochs_since_validation_improvement' = 0
                     /\ best_known_net' = net
                     /\ validation_cost' = nvc
                ELSE /\ epochs_since_validation_improvement' =
                          epochs_since_validation_improvement + 1
                     /\ UNCHANGED <<best_known_net, validation_cost>>
             /\ hist' = Append(hist, [net |-> net, cost |-> Some(nvc)])
     ELSE /\ hist' = Append(hist, [net |-> net, cost |-> None])
          /\ UNCHANGED <<new_validation_cost, epochs_since_validation_improvement,
                         best_known_net, validation_cost>>
  /\ IF conf.momentum_rate.some
     THEN /\ last_weight_update_sum' = acc.v.w
          /\ last_bias_update_sum' = acc.v.b
     ELSE UNCHANGED <<last_weight_update_sum, last_bias_update_sum>>
  /\ obs' = [obs EXCEPT !.validations = @ + (IF is_validating THEN 1 ELSE 0),
                        !.completed = @ + 1,
                        !.validation_error =
                           IF is_validating THEN validation_error(net, validation_data.v)
                           ELSE @]
  /\ pc' = "loop"
  /\ UNCHANGED <<conf, learning, validation_data, epoch, batch, worker, acc, train_cost,
                 supplied>>
  /\ UNCHANGED netVars

\* Lines 222-252: validation, the snapshot decision and the retained gradient.
Validate ==
  /\ pc = "validate"
  /\ IF is_validating
     THEN LET verr == validation_error(net, validation_data.v)
              nvc == cost(net, verr, VLen(validation_data.v), conf)
          IN /\ new_validation_cost' = Some(nvc)
             /\ IF FLt(nvc, validation_cost)
                THEN /\ epochs_since_validation_improvement' = 0
                     /\ best_known_net' = net
                     /\ validation_cost' = nvc
                ELSE /\ epochs_since_validation_improvement' =
                          epochs_since_validation_improvement + 1
                     /\ UNCHANGED <<best_known_net, validation_cost>>
             /\ hist' = Append(hist, [net |-> net, cost |-> Some(nvc)])
     ELSE /\ hist' = Append(hist, [net |-> net, cost |-> None])
          /\ UNCHANGED <<new_validation_cost, epochs_since_validation_improvement,
                         best_known_net, validation_cost>>
  /\ IF conf.momentum_rate.some
     THEN /\ last_weight_update_sum' = acc.v.w
          /\ last_bias_update_sum' = acc.v.b
     ELSE UNCHANGED <<last_weight_update_sum, last_bias_update_sum>>
  /\ obs' = [obs EXCEPT !.validations = @ + (IF is_validating THEN 1 ELSE 0),
                        !.completed = @ + 1,
                        !.validation_error =
                           IF is_validating THEN validation_error(net, validation_data.v)
                           ELSE @]
  /\ pc' = "loop"
  /\ UNCHANGED <<conf, learning, validation_data, epoch, batch, worker, acc, train_cost,
                 supplied>>
  /\ UNCHANGED netVars

\* A variant of the return that leaves the last network in place.
ReturnWithoutRestore ==
  /\ pc = "exit"
  /\ net' = net
  /\ pc' = "done"
  /\ UNCHANGED <<defn, rng, randomized, result>>
  /\ UNCHANGED trainVars

\* Lines 257-259: the best known network is put in place.
Return ==
  /\ pc = "exit"
  /\ net' = IF is_validating THEN best_known_net ELSE net
  /\ pc' = "done"
  /\ UNCHANGED <<defn, rng, randomized, result>>
  /\ UNCHANGED trainVars

\* finge-rs.rs lines 42-45: the interrupt handler clears the flag while train
\* runs its loop (the flag is not read after the loop).
Interrupt ==
  /\ pc \in {"loop", "map", "validate"}
  /\ learning = Some(TRUE)
  /\ learning' = Some(FALSE)
  /\ obs' = [obs EXCEPT !.flipped = [at |-> pc, epoch |-> epoch]]
  /\ UNCHANGED <<pc, conf, validation_data, epochs_since_validation_improvement,
                 epoch, last_weight_update_sum, last_bias_update_sum, best_known_net,
                 validation_cost, batch, worker, acc, train_cost, new_validation_cost,
                 supplied, hist>>
  /\ UNCHANGED netVars

Next ==
  \/ FromDefinition
  \/ AssignRandomWeights
  \/ Eval
  \/ EvalToLayer
  \/ TrainCall
  \/ LoopExit
  \/ EpochStart
  \/ Exhausted
  \/ \E i \in DOMAIN worker : WorkerForward(i)
  \/ \E i \in DOMAIN worker : WorkerBackprop(i)
  \/ \E i \in DOMAIN worker : WorkerGradient(i)
  \/ UpdateWeights
  \/ Validate
  \/ Return
  \/ Interrupt

Spec == Init /\ [][Next]_vars

\* The activations of every layer after a full forward pass on example.
Activations(self, example) ==
  feed_forward(self, [zero_layers(self) EXCEPT ![0] = example], zero_layers(self),
               VLen(self.layer_sizes)).layers

\* C3: eval_to_layer(input, k) returns, for every layer index k, the activations
\* of layer k, a vector of length layer_sizes[k], and eval(input) for the last
\* layer index.
C3_EvalToLayerReturnsLayerK ==
  (pc = "built" /\ result.some /\ result.v.op = "eval_to_layer"
     /\ result.v.layer \in DOMAIN net.layer_sizes)
  => /\ result.v.ret = Ok(Activations(net, result.v.example)[result.v.layer])
     /\ (result.v.layer = VLen(net.layer_sizes) - 1
           => result.v.ret = eval(net, result.v.example))

\* C4: a definition with as many coefficients as layers yields a network whose
\* per-layer arrays all have len(layer_sizes) entries, with the 0.0 coefficient
\* and the 0x0 weight placeholder at index 0, and layer i >= 1 is activated with
\* the definition's coefficient of layer i.
C4_ArraysAlignedWithLayerSizes ==
  (pc = "built" /\ VLen(defn.activation_coeffs) = VLen(defn.layers))
  => /\ VLen(net.activation_coeffs) = VLen(net.layer_sizes)
     /\ VLen(net.weights) = VLen(net.layer_sizes)
     /\ VLen(net.biases) = VLen(net.layer_sizes)
     /\ net.activation_coeffs[0] = Zero
     /\ net.weights[0] = new_zeros_mat(0, 0)
     /\ \A i \in 1..(VLen(net.layer_sizes) - 1) :
          net.activation_coeffs[i] = defn.activation_coeffs[i]

\* ------------------------------------------------------------------------
\* Properties of training
\* ------------------------------------------------------------------------
InTrain == pc \in {"loop", "map", "validate", "exit", "done"}

IsNumber(x) == x[2] > 0

\* The validation costs of the epochs run so far strictly increase after epoch 1
\* (the cost of epoch 1 is a number, which later costs can exceed).
CostsStrictlyIncrease ==
  /\ Len(hist) >= 1
  /\ IsNumber(hist[1].cost.v)
  /\ \A e \in 2..Len(hist) : FLt(hist[e - 1].cost.v, hist[e].cost.v)

C1_Case ==
  /\ pc = "done"
  /\ is_validating
  /\ ~conf.max_epochs.some
  /\ learning # Some(FALSE)
  /\ ~obs.exhausted
  /\ CostsStrictlyIncrease

\* C1: with a validation set, no epoch cap, the flag never cleared and a supplier
\* that never signals exhaustion, a validation cost that strictly increases every
\* epoch after epoch 1 halts training after exactly
\* sequential_validation_failures_required further epochs, and the network left
\* in place is the snapshot taken at the end of epoch 1.
C1_EarlyStopping ==
  C1_Case => /\ epoch = 1 + conf.sequential_validation_failures_required
             /\ obs.completed = epoch
             /\ net = hist[1].net

C1_Witness ==
  /\ C1_Case
  /\ conf.sequential_validation_failures_required = MaxPatience
  /\ epoch = 1 + MaxPatience
  /\ net # hist[Len(hist)].net

\* The best-known snapshot according to C2: the network after a completed epoch
\* whose validation cost no other completed epoch undercuts, the initial network
\* if no epoch completed.
IsBestKnown(n) ==
  IF Len(hist) = 0 THEN n = obs.net0
  ELSE \E e \in 1..Len(hist) :
         /\ n = hist[e].net
         /\ \A f \in 1..Len(hist) : ~FLt(hist[f].cost.v, hist[e].cost.v)

\* C2: when train returns, with a validation set the network is the best-known
\* snapshot (the network after the epoch of lowest validation cost, the initial
\* network if no epoch completed); without one it is the network of the last
\* weight update.
C2_ReturnsBestKnown ==
  pc = "done" => IF is_validating THEN IsBestKnown(net) ELSE net = obs.last_updated

ShapesMatch(self, layer_sizes) ==
  /\ self.layer_sizes = layer_sizes
  /\ VLen(self.weights) = VLen(layer_sizes)
  /\ VLen(self.biases) = VLen(layer_sizes)
  /\ \A i \in 1..(VLen(layer_sizes) - 1) :
       /\ self.weights[i].nrows = layer_sizes[i - 1]
       /\ self.weights[i].ncols = layer_sizes[i]
       /\ VLen(self.weights[i].mij) = layer_sizes[i - 1] * layer_sizes[i]
       /\ VLen(self.biases[i]) = layer_sizes[i]

\* C5: weights[i] has shape (layer_sizes[i-1], layer_sizes[i]) and biases[i] has
\* length layer_sizes[i] for every i >= 1 after from_definition, and after any
\* assign_random_weights, training epoch and restore of the best-known snapshot.
C5_ShapesFixedByLayerSizes ==
  /\ pc \in {"built", "loop", "map", "validate", "exit", "done"}
       => ShapesMatch(net, defn.layers)
  /\ InTrain => ShapesMatch(best_known_net, defn.layers)

C5_Witness ==
  /\ pc = "done"
  /\ is_validating
  /\ VLen(defn.layers) = 3
  /\ randomized
  /\ obs.updates >= 2
  /\ net # obs.last_updated
  /\ net # obs.net0

SumSquares(m) == Sum([k \in DOMAIN m.mij |-> FMul(m.mij[k], m.mij[k])])

\* The cost as C6 states it: the mean of the squared weights of each weight
\* layer, summed and divided by the number of weight layers.
StatedCost(self, err, lambda) ==
  IF lambda = Zero THEN err
  ELSE FAdd(err,
            FDiv(FMul(Sum([i \in 0..(VLen(self.layer_sizes) - 2) |->
                             FDiv(SumSquares(self.weights[i + 1]),
                                  F(VLen(self.weights[i + 1].mij)))]),
                      lambda),
                 F(VLen(self.layer_sizes) - 1)))

\* The cost as amended: the squared weights of all entries of weights, divided
\* by the number of examples and by len(layer_sizes).
ExamplesCost(self, err, examples, lambda) ==
  IF examples = 0 THEN Zero
  ELSE IF lambda = Zero THEN err
  ELSE FAdd(err,
            FMul(lambda,
                 FDiv(Sum([i \in DOMAIN self.weights |-> SumSquares(self.weights[i])]),
                      F(examples * VLen(self.layer_sizes)))))

\* C6 as stated: the reported costs are err + (sum over the weight layers of
\* the mean squared weight) * regularization_param / (len(layer_sizes) - 1).
C6_CostIsMeanSquaredWeights ==
  /\ (pc = "validate" /\ VLen(batch) > 0)
       => train_cost.v = StatedCost(net, obs.train_error, conf.regularization_param)
  /\ (pc = "loop" /\ is_validating /\ obs.completed >= 1 /\ VLen(validation_data.v) > 0)
       => new_validation_cost.v =
            StatedCost(net, obs.validation_error, conf.regularization_param)

\* C6 as amended: the reported costs are 0.0 for zero examples, and otherwise
\* err + regularization_param * (sum of all squared weights) / (examples *
\* len(layer_sizes)), which is err when regularization_param is 0.
C6_CostDividesByExamples ==
  /\ pc = "validate"
       => train_cost.v = ExamplesCost(net, obs.train_error, VLen(batch),
                                      conf.regularization_param)
  /\ (pc = "loop" /\ is_validating /\ obs.completed >= 1)
       => new_validation_cost.v =
            ExamplesCost(net, obs.validation_error, VLen(validation_data.v),
                         conf.regularization_param)

C6_Witness ==
  /\ pc = "validate"
  /\ conf.regularization_param # Zero
  /\ VLen(batch) = 2
  /\ VLen(defn.layers) = 3
  /\ IsNumber(train_cost.v)
  /\ train_cost.v # obs.train_error
  /\ train_cost.v # StatedCost(net, obs.train_error, conf.regularization_param)

WorkersActive == pc = "map" /\ \E i \in DOMAIN worker : worker[i].st # "done"

\* The reduction of the batch in the order of the examples.
RECURSIVE BatchGradient(_, _, _)
BatchGradient(self, b, n) ==
  IF n = 0 THEN ReduceIdentity(self)
  ELSE LET r == BatchGradient(self, b, n - 1)
           u == example_update(self, b[n - 1])
       IN [w |-> weight_sum(r.w, u.w), b |-> bias_sum(r.b, u.b), err |-> FAdd(r.err, u.err)]

FrozenWhileActive == WorkersActive => net' = net

UpdateAfterBarrier ==
  obs'.updates # obs.updates
    => (/\ pc = "map"
        /\ \A i \in DOMAIN worker : worker[i].st = "done"
        /\ acc.v = BatchGradient(obs.epoch_net, batch, VLen(batch))
        /\ obs'.updates = obs.updates + 1)

\* C7: the parameters are not written while a worker of the batch is running,
\* every stage of every worker reads the parameters of the start of the epoch,
\* and exactly one weight update is applied per epoch that obtained a batch,
\* after all workers have finished and their results have been reduced.
C7_ParametersFrozenDuringBatch ==
  /\ [][FrozenWhileActive]_vars
  /\ [][UpdateAfterBarrier]_vars
  /\ [](pc = "map" => \A i \in DOMAIN worker : worker[i].seen \subseteq {obs.epoch_net})
  /\ [](InTrain => obs.updates = supplied - (IF pc = "map" THEN 1 ELSE 0))

C7_Witness ==
  /\ pc = "map"
  /\ VLen(batch) = 2
  /\ worker[0].st = "done"
  /\ worker[1].st = "backprop"
  /\ obs.updates >= 1
  /\ net # obs.net0

\* C9: the flag is read once per epoch, at its top; an epoch during which the
\* handler clears the flag still completes in full and no further epoch starts;
\* the network returned is then the best-known checkpoint as on any other exit.
C9_CooperativeCancellation ==
  /\ (InTrain /\ learning.some)
       => obs.flag_reads = epoch + (IF pc \in {"exit", "done"} /\ ~obs.exhausted
                                    THEN 1 ELSE 0)
  /\ (InTrain /\ obs.flipped.at # "no") => epoch = obs.flipped.epoch
  /\ (pc = "done" /\ obs.flipped.at \in {"map", "validate"})
       => /\ obs.completed = obs.flipped.epoch
          /\ obs.updates = obs.flipped.epoch
          /\ is_validating => obs.validations = obs.flipped.epoch
  /\ (pc = "done" /\ learning = Some(FALSE))
       => net = IF is_validating THEN best_known_net ELSE obs.last_updated

C9_Witness ==
  /\ pc = "done"
  /\ obs.flipped.at = "map"
  /\ obs.flipped.epoch = 2
  /\ is_validating
  /\ conf.sequential_validation_failures_required = MaxPatience
  /\ ~conf.max_epochs.some
  /\ net # hist[2].net

EpochStartsUnderLoopCond ==
  (epoch' # epoch /\ pc # "built") => (LoopCond /\ pc = "loop" /\ epoch' = epoch + 1)

NothingAfterLoop ==
  pc \in {"exit", "done"}
    => (/\ obs'.batch_requests = obs.batch_requests
        /\ obs'.updates = obs.updates
        /\ obs'.validations = obs.validations
        /\ epoch' = epoch
        /\ pc' \in {"exit", "done"})

EndsWhenCondFalse ==
  (pc = "loop" /\ ~LoopCond)
    => (/\ pc' \in {"loop", "exit"}
        /\ epoch' = epoch
        /\ obs'.batch_requests = obs.batch_requests)

CapAndPatienceRespected ==
  InTrain => (/\ conf.max_epochs.some => obs.updates <= conf.max_epochs.v
              /\ epochs_since_validation_improvement
                   <= conf.sequential_validation_failures_required)

\* C10: an epoch starts only when the flag says learning, the streak is below
\* the patience and the epochs started are below the cap; once one of them is
\* false or the supplier is exhausted there is no further batch request, weight
\* update or validation; the weight updates never exceed the cap and the streak
\* never exceeds the patience.
C10_ContinuationPredicate ==
  /\ [][EpochStartsUnderLoopCond]_vars
  /\ [][NothingAfterLoop]_vars
  /\ [][EndsWhenCondFalse]_vars
  /\ []CapAndPatienceRespected

C10_Witness ==
  /\ pc = "done"
  /\ conf.max_epochs = Some(MaxCap)
  /\ obs.updates = MaxCap
  /\ epochs_since_validation_improvement = 0
  /\ learning # Some(FALSE)
  /\ ~obs.exhausted

\* x is strictly lower than y: both are numbers or infinities, and x < y.
StrictlyLower(x, y) ==
  /\ ~IsNaN(x) /\ ~IsNaN(y)
  /\ x # y
  /\ \/ x = NEG_INFINITY
     \/ y = INFINITY
     \/ IsFinite(x) /\ IsFinite(y) /\ x[1] * y[2] < y[1] * x[2]

\* The validation pass of an epoch ends: the step from "validate" to "loop".
ValidationPassFollowsRule ==
  (pc = "validate" /\ pc' = "loop")
    => IF is_validating
       THEN /\ new_validation_cost'.v =
                 cost(net, validation_error(net, validation_data.v),
                      VLen(validation_data.v), conf)
            /\ IF StrictlyLower(new_validation_cost'.v, validation_cost)
               THEN /\ epochs_since_validation_improvement' = 0
                    /\ validation_cost' = new_validation_cost'.v
                    /\ best_known_net' = net
               ELSE /\ epochs_since_validation_improvement' =
                         epochs_since_validation_improvement + 1
                    /\ validation_cost' = validation_cost
                    /\ best_known_net' = best_known_net
       ELSE /\ epochs_since_validation_improvement' = 0
            /\ validation_cost' = validation_cost
            /\ best_known_net' = best_known_net

\* C11: after the validation pass of an epoch, a new validation cost strictly
\* lower than the best cost so far (initially +infinity) resets the streak to
\* zero, becomes the best cost and makes the just-updated network the best
\* known; any other cost, an equal one included, increments the streak by one
\* and changes neither the best cost nor the snapshot. Without a validation set
\* the streak is 0 in every epoch.
C11_SnapshotOnStrictImprovement ==
  /\ [][ValidationPassFollowsRule]_vars
  /\ [](pc = "loop" /\ epoch = 0 => validation_cost = INFINITY)
  /\ []((InTrain /\ ~is_validating) => epochs_since_validation_improvement = 0)

C11_Witness ==
  /\ pc = "loop"
  /\ is_validating
  /\ VLen(validation_data.v) > 0
  /\ VLen(batch) > 0
  /\ obs.completed >= 2
  /\ IsNumber(validation_cost)
  /\ new_validation_cost.v = validation_cost
  /\ epochs_since_validation_improvement >= 1
  /\ best_known_net # net
  /\ best_known_net # obs.net0

\* The network at the start of epoch e of the current call of train.
StartNet(e) == IF e = 1 THEN obs.net0 ELSE hist[e - 1].net

\* The accumulated gradient of the last completed epoch, all-zero before the
\* first epoch has completed.
PrevGradient ==
  IF Len(hist) = 0 THEN ReduceIdentity(net)
  ELSE BatchGradient(StartNet(Len(hist)), batch, VLen(batch))

\* The update rule as C12 states it, for the accumulated gradients dw, db of n
\* examples and the gradients prev_dw, prev_db of the preceding epoch.
StatedUpdate(self, dw, db, prev_dw, prev_db, n, c) ==
  LET lr == c.learning_rate
      lambda == c.regularization_param
      Step(x, d, prev, scaled) ==
        LET x0 == IF scaled /\ lambda # Zero
                  THEN FMul(x, FSub(One, FDiv(FMul(lambda, lr), F(n))))
                  ELSE x
            x1 == FSub(x0, FMul(FDiv(d, F(n)), lr))
        IN IF c.momentum_rate.some
           THEN FSub(x1, FMul(FDiv(prev, F(n)), c.momentum_rate.v))
           ELSE x1
  IN [self EXCEPT
        !.weights = [it \in DOMAIN self.weights |->
           [self.weights[it] EXCEPT !.mij = [k \in DOMAIN self.weights[it].mij |->
              Step(self.weights[it].mij[k], dw[it].mij[k], prev_dw[it].mij[k], it = 1)]]],
        !.biases = [it \in DOMAIN self.biases |->
           [k \in DOMAIN self.biases[it] |->
              Step(self.biases[it][k], db[it][k], prev_db[it][k], FALSE)]]]

UpdateFollowsRule ==
  obs'.updates # obs.updates
    => net' = StatedUpdate(net, acc.v.w, acc.v.b, PrevGradient.w, PrevGradient.b,
                           VLen(batch), conf)

RetainedGradient ==
  (pc \in {"loop", "map"})
    => IF conf.momentum_rate.some
       THEN /\ last_weight_update_sum = PrevGradient.w
            /\ last_bias_update_sum = PrevGradient.b
       ELSE /\ last_weight_update_sum = zero_weights(net)
            /\ last_bias_update_sum = zero_layers(net)

\* C12: the weight update of an epoch scales the weights of layer 1 by
\* 1 - regularization_param*learning_rate/N when regularization_param is not 0,
\* subtracts (dw/N)*learning_rate from every weight and, with a momentum rate,
\* (prev_dw/N)*momentum_rate, prev_dw being the accumulated gradient of the
\* preceding epoch (all-zero in the first epoch); biases follow the same rule
\* without the scaling; without a momentum rate the retained gradient stays
\* all-zero.
C12_UpdateRule ==
  /\ [][UpdateFollowsRule]_vars
  /\ []RetainedGradient

C12_Witness ==
  /\ pc = "validate"
  /\ conf.momentum_rate.some
  /\ conf.regularization_param # Zero
  /\ Len(hist) >= 1
  /\ VLen(batch) = 2
  /\ last_weight_update_sum # zero_weights(net)
  /\ net # obs.epoch_net
  /\ \A k \in DOMAIN net.weights[1].mij : IsNumber(net.weights[1].mij[k])

\* C13: an epoch whose batch has no examples leaves every weight and bias of
\* the network as it was at the start of the epoch, and no weight update is
\* applied with the divisor 0.
C13_EmptyBatchLeavesNetwork ==
  /\ (pc = "validate" /\ VLen(batch) = 0) => net = obs.epoch_net
  /\ InTrain => ~obs.zero_update

\* ------------------------------------------------------------------------
\* The reduction of a batch in any order (specification SpecReduce)
\* ------------------------------------------------------------------------
MaxBatch == 3

ReduceNet ==
  from_definition([layers |-> Vec0(<<1, 1>>), activation_coeffs |-> Vec0(<<One>>),
                   activation_fn |-> "id"])

\* Examples whose gradients on the zero network are 16777216, 1, -1 and 3.
ReduceExamples ==
  {<<Vec0(<<F(F32Mantissa)>>), Vec0(<<F(-1)>>)>>,
   <<Vec0(<<One>>), Vec0(<<F(-1)>>)>>,
   <<Vec0(<<One>>), Vec0(<<One>>)>>,
   <<Vec0(<<F(-3)>>), Vec0(<<One>>)>>}

ReduceBatches == UNION {[0..(n - 1) -> ReduceExamples] : n \in 0..MaxBatch}

InitReduce ==
  /\ pc = "reduce"
  /\ defn = [layers |-> Vec0(<<1, 1>>), activation_coeffs |-> Vec0(<<One>>),
             activation_fn |-> "id"]
  /\ net = ReduceNet
  /\ rng = 0 /\ randomized = FALSE /\ result = None
  /\ conf = None /\ learning = None /\ validation_data = None
  /\ epochs_since_validation_improvement = 0 /\ epoch = 0
  /\ last_weight_update_sum = <<>> /\ last_bias_update_sum = <<>>
  /\ best_known_net = NoNet /\ validation_cost = INFINITY
  /\ batch \in ReduceBatches
  /\ worker = <<ReduceIdentity(ReduceNet)>>
                \o [i \in 1..VLen(batch) |-> example_update(ReduceNet, batch[i - 1])]
  /\ acc = None
  /\ train_cost = None /\ new_validation_cost = None
  /\ supplied = 0 /\ hist = <<>> /\ obs = NoObs

FAddExact(x, y) ==
  LET g == GCD(x[2], y[2])
      n == x[1] * (y[2] \div g) + y[1] * (x[2] \div g)
      d == (x[2] \div g) * y[2]
      h == GCD(Abs(n), d)
  IN <<n \div h, d \div h>>

\* The closure of reduce, lines 213-214.
reduce_op(a, b) ==
  [w |-> weight_sum(a.w, b.w), b |-> bias_sum(a.b, b.b), err |-> FAdd(a.err, b.err)]

ExactOp(a, b) ==
  [w |-> [it \in DOMAIN a.w |->
            [a.w[it] EXCEPT !.mij = [k \in DOMAIN a.w[it].mij |->
                                       FAddExact(a.w[it].mij[k], b.w[it].mij[k])]]],
   b |-> [it \in DOMAIN a.b |-> [k \in DOMAIN a.b[it] |-> FAddExact(a.b[it][k], b.b[it][k])]],
   err |-> FAddExact(a.err, b.err)]

\* Whether some f32 addition of the elementwise sum of a and b is rounded.
Inexact(a, b) ==
  \/ \E it \in DOMAIN a.w : \E k \in DOMAIN a.w[it].mij :
        FAdd(a.w[it].mij[k], b.w[it].mij[k]) # FAddExact(a.w[it].mij[k], b.w[it].mij[k])
  \/ \E it \in DOMAIN a.b : \E k \in DOMAIN a.b[it] :
        FAdd(a.b[it][k], b.b[it][k]) # FAddExact(a.b[it][k], b.b[it][k])
  \/ FAdd(a.err, b.err) # FAddExact(a.err, b.err)

Without(sq, i, j) ==
  LET keep == {k \in 1..Len(sq) : k # i /\ k # j}
      f[n \in 0..Len(sq)] ==
        IF n = 0 THEN <<>>
        ELSE IF n \in keep THEN Append(f[n - 1], sq[n]) ELSE f[n - 1]
  IN f[Len(sq)]

\* Two partial results, in any order and grouping, are combined.
Combine(i, j) ==
  /\ pc = "reduce"
  /\ i # j
  /\ worker' = Append(Without(worker, i, j), reduce_op(worker[i], worker[j]))
  /\ obs' = [obs EXCEPT !.rounded = @ \/ Inexact(worker[i], worker[j])]
  /\ UNCHANGED <<pc, conf, learning, validation_data, epochs_since_validation_improvement,
                 epoch, last_weight_update_sum, last_bias_update_sum, best_known_net,
                 validation_cost, batch, acc, train_cost, new_validation_cost, supplied,
                 hist>>
  /\ UNCHANGED netVars

\* reduce returns the only partial result left.
ReduceDone ==
  /\ pc = "reduce"
  /\ Len(worker) = 1
  /\ acc' = Some(worker[1])
  /\ pc' = "reduced"
  /\ UNCHANGED <<conf, learning, validation_data, epochs_since_validation_improvement,
                 epoch, last_weight_update_sum, last_bias_update_sum, best_known_net,
                 validation_cost, batch, worker, train_cost, new_validation_cost,
                 supplied, hist, obs>>
  /\ UNCHANGED netVars

NextReduce ==
  \/ \E i \in DOMAIN worker : \E j \in DOMAIN worker : Combine(i, j)
  \/ ReduceDone

SpecReduce == InitReduce /\ [][NextReduce]_vars

\* The elementwise sums of the gradients of the batch, without rounding.
RECURSIVE ExactBatchSum(_, _, _)
ExactBatchSum(self, b, n) ==
  IF n = 0 THEN ReduceIdentity(self)
  ELSE ExactOp(ExactBatchSum(self, b, n - 1), example_update(self, b[n - 1]))

\* C8 as stated: every permutation and grouping of the reduction yields the
\* aggregate of the reduction in the order of the examples.
C8_ReductionOrderIndependent ==
  pc = "reduced" => acc.v = BatchGradient(net, batch, VLen(batch))

\* C8 as amended: every permutation and grouping of the reduction in which no
\* partial sum is rounded yields the exact elementwise sum of the gradients.
C8_ReductionExactUnlessRounded ==
  (pc = "reduced" /\ ~obs.rounded) => acc.v = ExactBatchSum(net, batch, VLen(batch))

C8_Witness ==
  /\ pc = "reduced"
  /\ ~obs.rounded
  /\ VLen(batch) = 3
  /\ acc.v # BatchGradient(net, batch, VLen(batch))

====
